---- MODULE Spec2Model ----
(***************************************************************************)
(* The /ask pipeline of the Bihar Election 2025 analytics service:         *)
(* generate SQL -> sql_safe -> execute -> (repair_sql -> execute)          *)
(* -> generate_answer_text -> AskResponse.                                 *)
(* Texts are TLA+ strings handled character by character, so that strip,   *)
(* lower, startswith and substring tests are computed as Python does.      *)
(***************************************************************************)
EXTENDS Integers, Sequences, FiniteSets, TLC

(* ------------------------------ bounds --------------------------------- *)

\* number of fragments concatenated into a candidate query for sql_safe
MaxFrags == 3
\* how far past the 25-row threshold the largest result set goes
ExtraRows == 5
\* how far past the 120-row cap the row lists given to generate_answer_text go
MaxOver == 3

(* ------------------------- program constants --------------------------- *)

MAX_ROWS_FOR_ANSWER == 120
SummaryThreshold == 25
SampleSize == 5

(* --------------------------- Python str helpers ------------------------ *)

UpperLetters == "ABCDEFGHIJKLMNOPQRSTUVWXYZ"
LowerLetters == "abcdefghijklmnopqrstuvwxyz"

Char(s, i) == SubSeq(s, i, i)

\* str.lower() on one character
LowerChar(c) ==
    IF \E i \in 1..Len(UpperLetters) : Char(UpperLetters, i) = c
    THEN Char(LowerLetters, CHOOSE i \in 1..Len(UpperLetters) : Char(UpperLetters, i) = c)
    ELSE c

RECURSIVE Lower(_)
Lower(s) ==
    IF s = "" THEN ""
    ELSE LowerChar(Char(s, 1)) \o Lower(SubSeq(s, 2, Len(s)))

IsSpace(c) == c \in {" ", "\n", "\t"}

RECURSIVE LStrip(_)
LStrip(s) ==
    IF s # "" /\ IsSpace(Char(s, 1)) THEN LStrip(SubSeq(s, 2, Len(s))) ELSE s

RECURSIVE RStrip(_)
RStrip(s) ==
    IF s # "" /\ IsSpace(Char(s, Len(s))) THEN RStrip(SubSeq(s, 1, Len(s) - 1)) ELSE s

\* str.strip()
Strip(s) == RStrip(LStrip(s))

\* The backquote of a Markdown code fence.  String literals here cannot hold
\* that character, so the caret stands for it in every modelled text.
Tick == "^"
Fence == Tick \o Tick \o Tick

RECURSIVE LStripTicks(_)
LStripTicks(s) ==
    IF s # "" /\ Char(s, 1) = Tick THEN LStripTicks(SubSeq(s, 2, Len(s))) ELSE s

RECURSIVE RStripTicks(_)
RStripTicks(s) ==
    IF s # "" /\ Char(s, Len(s)) = Tick THEN RStripTicks(SubSeq(s, 1, Len(s) - 1)) ELSE s

\* str.strip(Tick)
StripTicks(s) == RStripTicks(LStripTicks(s))

\* str.startswith / str.endswith / "b in s"
StartsWith(s, p) == Len(s) >= Len(p) /\ SubSeq(s, 1, Len(p)) = p
EndsWith(s, p) == Len(s) >= Len(p) /\ SubSeq(s, Len(s) - Len(p) + 1, Len(s)) = p
Contains(s, b) == \E i \in 1..(Len(s) - Len(b) + 1) : SubSeq(s, i, i + Len(b) - 1) = b

\* str.replace("sql", "")
RECURSIVE RemoveSql(_)
RemoveSql(s) ==
    IF s = "" THEN ""
    ELSE IF StartsWith(s, "sql") THEN RemoveSql(SubSeq(s, 4, Len(s)))
    ELSE Char(s, 1) \o RemoveSql(SubSeq(s, 2, Len(s)))

(* ------------------------------- llm.py -------------------------------- *)

bad == {"insert", "update", "delete", "drop", "alter", "create", "truncate"}

sql_safe_nolower(sql) ==
    LET stripped == Strip(sql) IN
    /\ StartsWith(stripped, "select") \/ StartsWith(stripped, "with")
    /\ ~ \E b \in bad : Contains(stripped, b)

sql_safe_selectonly(sql) ==
    LET lowered == Lower(Strip(sql)) IN
    /\ StartsWith(lowered, "select")
    /\ ~ \E b \in bad : Contains(lowered, b)

sql_safe(sql) ==
    LET lowered == Lower(Strip(sql)) IN
    IF ~StartsWith(lowered, "select") /\ ~StartsWith(lowered, "with")
    THEN FALSE
    ELSE ~ \E b \in bad : Contains(lowered, b)

\* post-processing of the oracle reply in generate_sql
CleanGenerated(reply) ==
    LET s0 == Strip(reply)
        s1 == IF StartsWith(s0, Fence \o "sql") THEN SubSeq(s0, 7, Len(s0)) ELSE s0
        s2 == IF StartsWith(s1, Fence) THEN SubSeq(s1, 4, Len(s1)) ELSE s1
        s3 == IF EndsWith(s2, Fence) THEN SubSeq(s2, 1, Len(s2) - 3) ELSE s2
    IN Strip(s3)

\* post-processing of the oracle reply in repair_sql
CleanRepaired(reply) ==
    LET fixed == Strip(reply)
    IN IF StartsWith(fixed, Fence) THEN Strip(RemoveSql(StripTicks(fixed))) ELSE fixed

\* rows[:k]
Take(rows, k) == SubSeq(rows, 1, IF Len(rows) < k THEN Len(rows) ELSE k)

Digits == "0123456789"

\* str(n) for a natural number, as an f-string prints it
RECURSIVE Str(_)
Str(n) ==
    IF n < 10 THEN Char(Digits, n + 1)
    ELSE Str(n \div 10) \o Char(Digits, (n % 10) + 1)

\* what generate_answer_text puts in the prompt it sends to the oracle
AnswerPrompt_ge(question, sql, rows) ==
    LET total_rows == Len(rows)
        rows_for_llm == Take(rows, MAX_ROWS_FOR_ANSWER)
        truncation_note ==
            IF total_rows >= MAX_ROWS_FOR_ANSWER
            THEN "\nNOTE: Only the first " \o Str(MAX_ROWS_FOR_ANSWER) \o " of "
                 \o Str(total_rows) \o " rows are shown in Result rows."
            ELSE ""
    IN [question |-> question, sql |-> sql,
        rows_for_llm |-> rows_for_llm, truncation_note |-> truncation_note]

AnswerPrompt(question, sql, rows) ==
    LET total_rows == Len(rows)
        rows_for_llm == Take(rows, MAX_ROWS_FOR_ANSWER)
        truncation_note ==
            IF total_rows > MAX_ROWS_FOR_ANSWER
            THEN "\nNOTE: Only the first " \o Str(MAX_ROWS_FOR_ANSWER) \o " of "
                 \o Str(total_rows) \o " rows are shown in Result rows."
            ELSE ""
    IN [question |-> question, sql |-> sql,
        rows_for_llm |-> rows_for_llm, truncation_note |-> truncation_note]

(* -------------------------------- db.py -------------------------------- *)

\* tables init_db creates in the process-wide in-memory connection
DbTables == {"ac_totals", "party_performance"}

ErrMsgs == {"Binder Error: column not found", "Parser Error: syntax error"}

RowCounts ==
    {0, 1, SampleSize, SummaryThreshold, SummaryThreshold + 1,
     SummaryThreshold + ExtraRows, MAX_ROWS_FOR_ANSWER + 1}

\* a result table of n rows; row i is identified by its position
RowsOf(n) == [i \in 1..n |-> i]

\* the table a statement drops, if the statement is DROP TABLE <name>
DropTarget(st, stmt) == {t \in st : Lower(Strip(stmt)) = "drop table " \o t}

IsDrop(stmt) == StartsWith(Lower(Strip(stmt)), "drop table ")

\* conn.cursor().execute(stmt).df() against store st: the possible outcomes.
\* The connection is read-write, so a DROP that names an existing table
\* removes it.  Any other statement leaves the store alone and either
\* returns a table or raises duckdb.Error with a diagnostic message.
Execute(st, stmt) ==
    IF DropTarget(st, stmt) # {}
    THEN {[store |-> st \ DropTarget(st, stmt), ok |-> TRUE, rows |-> << >>, msg |-> ""]}
    ELSE IF IsDrop(stmt)
    THEN {[store |-> st, ok |-> FALSE, rows |-> << >>, msg |-> "Catalog Error: table does not exist"]}
    ELSE {[store |-> st, ok |-> TRUE, rows |-> RowsOf(n), msg |-> ""] : n \in RowCounts}
         \cup {[store |-> st, ok |-> FALSE, rows |-> << >>, msg |-> m] : m \in ErrMsgs}

(* ------------------------------- main.py ------------------------------- *)

NumReqs == 2
Reqs == 1..NumReqs

\* question texts a caller may post
Questions == {"", " \n", "who won", " who won\t", "top 30"}

\* replies the oracle may give to a generation or repair prompt
OracleSqlReplies ==
    {"select 1",
     " " \o Fence \o "sql\nSELECT 1\n" \o Fence,
     "with t as (select 2) select * from t",
     "select updated_at from ac_totals",
     "drop table party_performance",
     Fence \o "\nDrop Table ac_totals" \o Fence}

\* replies the oracle may give to a summarization prompt
OracleAnswerReplies == {" The NDA won 202 seats.\n", "No matching data was found."}

VARIABLES
    store,        \* db.conn: the set of tables present
    pc,           \* per request: position inside ask
    rawQuestion,  \* req.question as posted
    question,     \* req.question.strip()
    generated,    \* what generate_sql returned
    repaired,     \* what repair_sql returned
    sql,          \* the local variable sql of ask
    err1,         \* str(e) of the first execution
    err2,         \* str(e2) of the second execution
    rows,         \* df_to_clean_dict(df)
    executed,     \* statements handed to conn.cursor().execute, in order
    oracleCalls,  \* oracle round-trips made: [gen, repair, answer]
    repairArgs,   \* arguments of the repair_sql call
    sumArgs,      \* arguments of the generate_answer_text call
    prompt,       \* what generate_answer_text sent to the oracle
    sumText,      \* what generate_answer_text returned
    outcome,      \* AskResponse or HTTP error of the request
    vPc, vSql, vVerdict,  \* a stand-alone call of sql_safe
    aPc, aRows, aPrompt,  \* a stand-alone call of generate_answer_text
    world,        \* the oracle and the store as fixed functions, when pinned
    storeAtStart  \* per request: the store as it was when the request arrived

reqVars == <<pc, rawQuestion, question, generated, repaired, sql, err1, err2,
             rows, executed, oracleCalls, repairArgs, sumArgs, prompt,
             sumText, outcome>>
valVars == <<vPc, vSql, vVerdict, aPc, aRows, aPrompt, world, storeAtStart>>
vars == <<store, reqVars, valVars>>

NoOutcome == [kind |-> "none"]
HttpError(status, detail) == [kind |-> "error", status |-> status, detail |-> detail]
AskResponse(q, s, a, rs) ==
    [kind |-> "ok", question |-> q, sql |-> s, answer |-> a, rows |-> rs]

NoCalls == [gen |-> 0, repair |-> 0, answer |-> 0]
NoArgs == [called |-> FALSE]

InitRequests ==
    /\ store = DbTables
    /\ pc = [r \in Reqs |-> "idle"]
    /\ rawQuestion = [r \in Reqs |-> ""]
    /\ question = [r \in Reqs |-> ""]
    /\ generated = [r \in Reqs |-> ""]
    /\ repaired = [r \in Reqs |-> ""]
    /\ sql = [r \in Reqs |-> ""]
    /\ err1 = [r \in Reqs |-> ""]
    /\ err2 = [r \in Reqs |-> ""]
    /\ rows = [r \in Reqs |-> << >>]
    /\ executed = [r \in Reqs |-> << >>]
    /\ oracleCalls = [r \in Reqs |-> NoCalls]
    /\ repairArgs = [r \in Reqs |-> NoArgs]
    /\ sumArgs = [r \in Reqs |-> NoArgs]
    /\ prompt = [r \in Reqs |-> NoArgs]
    /\ sumText = [r \in Reqs |-> ""]
    /\ outcome = [r \in Reqs |-> NoOutcome]

\* no stand-alone call of generate_answer_text is under way
AnswerOff == aPc = "off" /\ aRows = << >> /\ aPrompt = NoArgs

\* the oracle and the store are not pinned to fixed functions
Unpinned == world = [pinned |-> FALSE] /\ storeAtStart = [r \in Reqs |-> DbTables]

Init ==
    /\ InitRequests
    /\ vPc = "off" /\ vSql = "" /\ vVerdict = FALSE
    /\ AnswerOff
    /\ Unpinned

\* line 240: question = req.question.strip()
CleanQuestion_nostrip(q) == q

CleanQuestion(q) == Strip(q)

\* line 249: sql = repair_sql(question, sql, str(e))
SqlAfterRepair_keep(old, fixed) == old

SqlAfterRepair(old, fixed) == fixed

\* line 253: f"Error executing SQL: {e2}"
ExecErrorDetail_first(e, e2) == "Error executing SQL: " \o e

ExecErrorDetail(e, e2) == "Error executing SQL: " \o e2

\* lines 258-267: the rows handed to generate_answer_text
SummaryRows_six(rs) ==
    IF Len(rs) > SummaryThreshold THEN Take(rs, SampleSize + 1) ELSE rs

SummaryRows_all(rs) == rs

SummaryRows(rs) ==
    IF Len(rs) > SummaryThreshold THEN Take(rs, SampleSize) ELSE rs

\* line 264: the disclosure appended to the answer of a sampled result
DisclosureNote(n) ==
    "\n\n**Note:** Found " \o Str(n) \o " results. I've summarized the top few above."
    \o " Please refer to the data table for the full list."

\* lines 258-267: the answer built around the summarizer text
AnswerFor(text, rs) ==
    IF Len(rs) > SummaryThreshold THEN text \o DisclosureNote(Len(rs)) ELSE text

\* ask, lines 239-241: a request arrives in slot r
ReceiveCore(r) ==
    /\ pc[r] \in {"idle", "done"}
    /\ \E q \in Questions :
         /\ rawQuestion' = [rawQuestion EXCEPT ![r] = q]
         /\ question' = [question EXCEPT ![r] = CleanQuestion(q)]
         /\ IF CleanQuestion(q) = ""
            THEN /\ outcome' = [outcome EXCEPT ![r] = HttpError(400, "Empty question")]
                 /\ pc' = [pc EXCEPT ![r] = "done"]
            ELSE /\ outcome' = [outcome EXCEPT ![r] = NoOutcome]
                 /\ pc' = [pc EXCEPT ![r] = "generate"]
    /\ generated' = [generated EXCEPT ![r] = ""]
    /\ repaired' = [repaired EXCEPT ![r] = ""]
    /\ sql' = [sql EXCEPT ![r] = ""]
    /\ err1' = [err1 EXCEPT ![r] = ""]
    /\ err2' = [err2 EXCEPT ![r] = ""]
    /\ rows' = [rows EXCEPT ![r] = << >>]
    /\ executed' = [executed EXCEPT ![r] = << >>]
    /\ oracleCalls' = [oracleCalls EXCEPT ![r] = NoCalls]
    /\ repairArgs' = [repairArgs EXCEPT ![r] = NoArgs]
    /\ sumArgs' = [sumArgs EXCEPT ![r] = NoArgs]
    /\ prompt' = [prompt EXCEPT ![r] = NoArgs]
    /\ sumText' = [sumText EXCEPT ![r] = ""]
    /\ UNCHANGED store

Receive(r) == ReceiveCore(r) /\ UNCHANGED valVars

\* ask, lines 243-244: generate_sql answers, then the sql_safe gate
Generate_nogate(r) ==
    /\ pc[r] = "generate"
    /\ \E reply \in OracleSqlReplies :
         LET s == CleanGenerated(reply) IN
         /\ generated' = [generated EXCEPT ![r] = s]
         /\ sql' = [sql EXCEPT ![r] = s]
         /\ pc' = [pc EXCEPT ![r] = "execute1"]
         /\ UNCHANGED outcome
    /\ oracleCalls' = [oracleCalls EXCEPT ![r].gen = @ + 1]
    /\ UNCHANGED <<store, rawQuestion, question, repaired, err1, err2, rows,
                   executed, repairArgs, sumArgs, prompt, sumText, valVars>>

Generate(r) ==
    /\ pc[r] = "generate"
    /\ \E reply \in OracleSqlReplies :
         LET s == CleanGenerated(reply) IN
         /\ generated' = [generated EXCEPT ![r] = s]
         /\ sql' = [sql EXCEPT ![r] = s]
         /\ IF ~sql_safe(s)
            THEN /\ outcome' = [outcome EXCEPT ![r] = HttpError(400, "Unsafe SQL")]
                 /\ pc' = [pc EXCEPT ![r] = "done"]
            ELSE /\ pc' = [pc EXCEPT ![r] = "execute1"]
                 /\ UNCHANGED outcome
    /\ oracleCalls' = [oracleCalls EXCEPT ![r].gen = @ + 1]
    /\ UNCHANGED <<store, rawQuestion, question, repaired, err1, err2, rows,
                   executed, repairArgs, sumArgs, prompt, sumText, valVars>>

\* an oracle call raises: the exception leaves ask, the request ends in a 500
OracleFails_retry(r, step, call) ==
    /\ pc[r] = step
    /\ oracleCalls' = [oracleCalls EXCEPT ![r][call] = @ + 1]
    /\ UNCHANGED <<store, pc, outcome, rawQuestion, question, generated, repaired,
                   sql, err1, err2, rows, executed, repairArgs, sumArgs, prompt,
                   sumText, valVars>>

OracleFails(r, step, call) ==
    /\ pc[r] = step
    /\ oracleCalls' = [oracleCalls EXCEPT ![r][call] = @ + 1]
    /\ outcome' = [outcome EXCEPT ![r] = HttpError(500, "Internal Server Error")]
    /\ pc' = [pc EXCEPT ![r] = "done"]
    /\ UNCHANGED <<store, rawQuestion, question, generated, repaired, sql, err1,
                   err2, rows, executed, repairArgs, sumArgs, prompt, sumText,
                   valVars>>

GenerateFails(r) == OracleFails(r, "generate", "gen")

\* ask, lines 246-248: the first execution
Execute1(r) ==
    /\ pc[r] = "execute1"
    /\ \E res \in Execute(store, sql[r]) :
         /\ store' = res.store
         /\ IF res.ok
            THEN /\ rows' = [rows EXCEPT ![r] = res.rows]
                 /\ pc' = [pc EXCEPT ![r] = "summarize"]
                 /\ UNCHANGED err1
            ELSE /\ err1' = [err1 EXCEPT ![r] = res.msg]
                 /\ pc' = [pc EXCEPT ![r] = "repair"]
                 /\ UNCHANGED rows
    /\ executed' = [executed EXCEPT ![r] = Append(@, sql[r])]
    /\ UNCHANGED <<rawQuestion, question, generated, repaired, sql, err2,
                   oracleCalls, repairArgs, sumArgs, prompt, sumText, outcome,
                   valVars>>

\* ask, line 249, and repair_sql, lines 230-236
Repair_newsql(r) ==
    /\ pc[r] = "repair"
    /\ \E reply \in OracleSqlReplies :
         LET fixed == CleanRepaired(reply) IN
         /\ repaired' = [repaired EXCEPT ![r] = fixed]
         /\ sql' = [sql EXCEPT ![r] = SqlAfterRepair(sql[r], fixed)]
         /\ repairArgs' = [repairArgs EXCEPT ![r] =
                             [called |-> TRUE, question |-> question[r],
                              bad_sql |-> fixed, error_msg |-> err1[r]]]
    /\ oracleCalls' = [oracleCalls EXCEPT ![r].repair = @ + 1]
    /\ pc' = [pc EXCEPT ![r] = "execute2"]
    /\ UNCHANGED <<store, rawQuestion, question, generated, err1, err2, rows,
                   executed, sumArgs, prompt, sumText, outcome, valVars>>

Repair(r) ==
    /\ pc[r] = "repair"
    /\ \E reply \in OracleSqlReplies :
         LET fixed == CleanRepaired(reply) IN
         /\ repaired' = [repaired EXCEPT ![r] = fixed]
         /\ sql' = [sql EXCEPT ![r] = SqlAfterRepair(sql[r], fixed)]
    /\ repairArgs' = [repairArgs EXCEPT ![r] =
                        [called |-> TRUE, question |-> question[r],
                         bad_sql |-> sql[r], error_msg |-> err1[r]]]
    /\ oracleCalls' = [oracleCalls EXCEPT ![r].repair = @ + 1]
    /\ pc' = [pc EXCEPT ![r] = "execute2"]
    /\ UNCHANGED <<store, rawQuestion, question, generated, err1, err2, rows,
                   executed, sumArgs, prompt, sumText, outcome, valVars>>

RepairFails(r) == OracleFails(r, "repair", "repair")

\* ask, lines 250-253: the second execution
Execute2_retry(r) ==
    /\ pc[r] = "execute2"
    /\ \E res \in Execute(store, sql[r]) :
         /\ store' = res.store
         /\ IF res.ok
            THEN /\ rows' = [rows EXCEPT ![r] = res.rows]
                 /\ pc' = [pc EXCEPT ![r] = "summarize"]
                 /\ UNCHANGED <<err1, err2>>
            ELSE /\ err1' = [err1 EXCEPT ![r] = res.msg]
                 /\ pc' = [pc EXCEPT ![r] = "repair"]
                 /\ UNCHANGED <<rows, err2>>
    /\ executed' = [executed EXCEPT ![r] = Append(@, sql[r])]
    /\ UNCHANGED <<rawQuestion, question, generated, repaired, sql,
                   oracleCalls, repairArgs, sumArgs, prompt, sumText, outcome,
                   valVars>>

Execute2(r) ==
    /\ pc[r] = "execute2"
    /\ \E res \in Execute(store, sql[r]) :
         /\ store' = res.store
         /\ IF res.ok
            THEN /\ rows' = [rows EXCEPT ![r] = res.rows]
                 /\ pc' = [pc EXCEPT ![r] = "summarize"]
                 /\ UNCHANGED <<err2, outcome>>
            ELSE /\ err2' = [err2 EXCEPT ![r] = res.msg]
                 /\ outcome' = [outcome EXCEPT ![r] =
                                  HttpError(400, ExecErrorDetail(err1[r], res.msg))]
                 /\ pc' = [pc EXCEPT ![r] = "done"]
                 /\ UNCHANGED rows
    /\ executed' = [executed EXCEPT ![r] = Append(@, sql[r])]
    /\ UNCHANGED <<rawQuestion, question, generated, repaired, sql, err1,
                   oracleCalls, repairArgs, sumArgs, prompt, sumText, valVars>>

\* ask, lines 255-271, and generate_answer_text, lines 177-224
Summarize(r) ==
    /\ pc[r] = "summarize"
    /\ \E reply \in OracleAnswerReplies :
         LET sample == SummaryRows(rows[r])
             text == Strip(reply)
         IN /\ sumArgs' = [sumArgs EXCEPT ![r] =
                             [called |-> TRUE, question |-> question[r],
                              sql |-> sql[r], rows |-> sample]]
            /\ prompt' = [prompt EXCEPT ![r] = AnswerPrompt(question[r], sql[r], sample)]
            /\ sumText' = [sumText EXCEPT ![r] = text]
            /\ outcome' = [outcome EXCEPT ![r] =
                             AskResponse(question[r], sql[r],
                                         AnswerFor(text, rows[r]), rows[r])]
    /\ oracleCalls' = [oracleCalls EXCEPT ![r].answer = @ + 1]
    /\ pc' = [pc EXCEPT ![r] = "done"]
    /\ UNCHANGED <<store, rawQuestion, question, generated, repaired, sql, err1,
                   err2, rows, executed, repairArgs, valVars>>

SummarizeFails(r) == OracleFails(r, "summarize", "answer")

\* requests served one after another through slot 1
Serial == {r \in Reqs : r = 1}

Next ==
    \E r \in Serial :
        \/ Receive(r)
        \/ Generate(r)
        \/ GenerateFails(r)
        \/ Execute1(r)
        \/ Repair(r)
        \/ RepairFails(r)
        \/ Execute2(r)
        \/ Summarize(r)
        \/ SummarizeFails(r)

Spec == Init /\ [][Next]_vars

(* ----------------------- a stand-alone validator ----------------------- *)

\* pieces a candidate query is put together from: the two admitted openers,
\* the seven denylisted words in mixed case, a word split over two pieces,
\* a blank, an identifier tail, a quote and a comment opener
Fragments ==
    {"select", "WITH", " ", "x", "insert", "UpDate", "delete", "DROP",
     "alter", "create", "truncate", "trun", "cate", "_at", "'", "--"}

RECURSIVE Concats(_)
Concats(k) ==
    IF k = 0 THEN {""}
    ELSE LET shorter == Concats(k - 1)
         IN shorter \cup {p \o f : p \in shorter, f \in Fragments}

CandidateTexts == Concats(MaxFrags)

InitValidator ==
    /\ InitRequests
    /\ vPc = "input" /\ vSql \in CandidateTexts /\ vVerdict = FALSE
    /\ AnswerOff
    /\ Unpinned

Validate ==
    /\ vPc = "input"
    /\ vVerdict' = sql_safe(vSql)
    /\ vPc' = "checked"
    /\ UNCHANGED <<vSql, aPc, aRows, aPrompt, world, storeAtStart, store, reqVars>>

NextValidator == Validate

SpecValidator == InitValidator /\ [][NextValidator]_vars

(* ----------------------- a stand-alone summarizer ---------------------- *)

\* row lists handed to generate_answer_text: every length up to past the cap
AnswerRowLists == {RowsOf(n) : n \in 0..(MAX_ROWS_FOR_ANSWER + MaxOver)}

InitAnswer ==
    /\ InitRequests
    /\ vPc = "off" /\ vSql = "" /\ vVerdict = FALSE
    /\ aPc = "input" /\ aRows \in AnswerRowLists /\ aPrompt = NoArgs
    /\ Unpinned

\* generate_answer_text, lines 182-216: the prompt is built from the arguments
BuildPrompt ==
    /\ aPc = "input"
    /\ \E q \in {"who won", "top 30"} :
         aPrompt' = AnswerPrompt(q, "select 1", aRows)
    /\ aPc' = "built"
    /\ UNCHANGED <<aRows, vPc, vSql, vVerdict, world, storeAtStart, store, reqVars>>

NextAnswer == BuildPrompt

SpecAnswer == InitAnswer /\ [][NextAnswer]_vars

(* -------------------------------- claims ------------------------------- *)

Unsafe400 == HttpError(400, "Unsafe SQL")
Empty400 == HttpError(400, "Empty question")
Oracle500 == HttpError(500, "Internal Server Error")

\* C1: every statement executed against the store, the first generated query
\* and the repaired query alike, is one the Validator sql_safe accepts; a
\* repaired query the Validator rejects is never executed.
C1_ExecutedWasValidated ==
    \A r \in Reqs : \A i \in DOMAIN executed[r] : sql_safe(executed[r][i])

\* C2: per request the oracle is called at most once for generation, at most
\* once for repair and at most once for summarization, and the store executes
\* at most two statements.
C2_AtMostOneOfEach ==
    \A r \in Reqs :
        /\ oracleCalls[r].gen <= 1
        /\ oracleCalls[r].repair <= 1
        /\ oracleCalls[r].answer <= 1
        /\ oracleCalls[r].gen + oracleCalls[r].repair + oracleCalls[r].answer <= 3
        /\ Len(executed[r]) <= 2

C2_Witness ==
    \E r \in Reqs :
        /\ oracleCalls[r] = [gen |-> 1, repair |-> 1, answer |-> 1]
        /\ Len(executed[r]) = 2
        /\ pc[r] = "done"

\* C3: when the generated query fails and the repaired query succeeds, the
\* sql of the returned envelope is the repaired query and its rows are the
\* rows of the repaired query execution.
C3_RepairedSqlReturned ==
    \A r \in Reqs :
        (outcome[r].kind = "ok" /\ oracleCalls[r].repair = 1) =>
            /\ Len(executed[r]) = 2
            /\ executed[r][1] = generated[r]
            /\ executed[r][2] = repaired[r]
            /\ outcome[r].sql = repaired[r]
            /\ outcome[r].rows = rows[r]

C3_Witness ==
    \E r \in Reqs :
        /\ outcome[r].kind = "ok"
        /\ oracleCalls[r].repair = 1
        /\ repaired[r] # generated[r]
        /\ outcome[r].sql = repaired[r]
        /\ Len(outcome[r].rows) > 0

\* C4: when both executions fail, the request ends in an execution error
\* whose detail carries the diagnostic of the second execution, not of the
\* first, and the summarizer is not called.
C4_SecondDiagnosticSurfaced ==
    \A r \in Reqs :
        (Len(executed[r]) = 2 /\ err2[r] # "") =>
            /\ pc[r] = "done"
            /\ outcome[r] = HttpError(400, "Error executing SQL: " \o err2[r])
            /\ Contains(outcome[r].detail, err2[r])
            /\ (err1[r] # err2[r] => ~Contains(outcome[r].detail, err1[r]))
            /\ oracleCalls[r].answer = 0
            /\ ~sumArgs[r].called

C4_Witness ==
    \E r \in Reqs :
        /\ Len(executed[r]) = 2
        /\ err1[r] # "" /\ err2[r] # "" /\ err1[r] # err2[r]
        /\ outcome[r].kind = "error"

\* C5: a successful request with N rows: if N > 25 the summarizer gets
\* exactly the first 5 rows and the answer is its text followed by the
\* disclosure that states N and points to the data table; if N <= 25 it gets
\* all rows and nothing is appended; the envelope always carries all N rows.
C5_SampleAndDisclosure ==
    \A r \in Reqs :
        outcome[r].kind = "ok" =>
            LET n == Len(rows[r]) IN
            /\ outcome[r].rows = rows[r]
            /\ sumArgs[r].called
            /\ IF n > 25
               THEN /\ sumArgs[r].rows = [i \in 1..5 |-> rows[r][i]]
                    /\ StartsWith(outcome[r].answer, sumText[r])
                    /\ outcome[r].answer = sumText[r] \o DisclosureNote(n)
                    /\ Contains(outcome[r].answer, "Found " \o Str(n) \o " results")
                    /\ Contains(outcome[r].answer, "data table")
               ELSE /\ sumArgs[r].rows = rows[r]
                    /\ outcome[r].answer = sumText[r]

C5_Witness ==
    \E r \in Reqs :
        /\ outcome[r].kind = "ok"
        /\ Len(outcome[r].rows) > 25
        /\ Len(sumArgs[r].rows) = 5
        /\ Contains(outcome[r].answer, Str(Len(outcome[r].rows)))

\* C8: a question that is empty or blank after trimming is rejected with a
\* client error before any oracle call and before any store execution.
C8_EmptyQuestionRejected ==
    \A r \in Reqs :
        (pc[r] # "idle" /\ Strip(rawQuestion[r]) = "") =>
            /\ pc[r] = "done"
            /\ outcome[r] = Empty400
            /\ oracleCalls[r] = NoCalls
            /\ executed[r] = << >>

C8_Witness ==
    \E r \in Reqs :
        /\ rawQuestion[r] = " \n"
        /\ pc[r] = "done"
        /\ outcome[r] = Empty400

\* C9: when the Validator rejects the first generated query the request
\* fails with a client error, nothing is executed, and neither the repair
\* oracle nor the summarizer is called.
C9_UnsafeGeneratedRejected ==
    \A r \in Reqs :
        /\ (oracleCalls[r].gen = 1 /\ pc[r] # "generate"
              /\ outcome[r] # Oracle500 /\ ~sql_safe(generated[r])) =>
                /\ pc[r] = "done"
                /\ outcome[r] = Unsafe400
        /\ outcome[r] = Unsafe400 =>
                /\ executed[r] = << >>
                /\ oracleCalls[r].repair = 0 /\ ~repairArgs[r].called
                /\ oracleCalls[r].answer = 0 /\ ~sumArgs[r].called

C9_Witness ==
    \E r \in Reqs :
        /\ outcome[r] = Unsafe400
        /\ ~sql_safe(generated[r])
        /\ Contains(generated[r], "update")

\* C10: after any sequence of ask requests the store holds what it held
\* after startup initialization.
C10_StoreNeverMutated == store = DbTables

\* C6: a candidate query whose lower-cased text contains insert, update,
\* delete, drop, alter, create or truncate anywhere is rejected by sql_safe,
\* whether or not it starts with select or with.
C6_DenylistedRejected ==
    (vPc = "checked"
       /\ \E b \in {"insert", "update", "delete", "drop", "alter", "create", "truncate"} :
             Contains(Lower(vSql), b))
    => (vVerdict = FALSE)

C6_Witness ==
    /\ vPc = "checked"
    /\ StartsWith(vSql, "select")
    /\ Contains(vSql, "UpDate_at")
    /\ vVerdict = FALSE

\* C7: sql_safe accepts every query whose trimmed, lower-cased text starts
\* with select or with and contains no denylisted word, and rejects every
\* query whose trimmed, lower-cased text starts with neither.
C7_SafeShapeAccepted ==
    vPc = "checked" =>
        LET l == Lower(Strip(vSql))
            opens == StartsWith(l, "select") \/ StartsWith(l, "with")
            listed == \E b \in {"insert", "update", "delete", "drop", "alter",
                                "create", "truncate"} : Contains(l, b)
        IN /\ (opens /\ ~listed) => (vVerdict = TRUE)
           /\ ~opens => (vVerdict = FALSE)

C7_Witness ==
    /\ vPc = "checked"
    /\ StartsWith(vSql, " WITH")
    /\ vVerdict = TRUE

\* C12: for every row list passed to generate_answer_text the rows put in
\* the oracle prompt are exactly the first min(len(rows), 120) rows, and the
\* prompt carries the note that only a prefix is shown exactly when
\* len(rows) > 120.
C12_PromptRowsCapped ==
    aPc = "built" =>
        LET n == Len(aRows)
            k == IF n < 120 THEN n ELSE 120
        IN /\ aPrompt.rows_for_llm = [i \in 1..k |-> aRows[i]]
           /\ (aPrompt.truncation_note # "") <=> (n > 120)
           /\ n > 120 =>
                Contains(aPrompt.truncation_note,
                         "Only the first 120 of " \o Str(n) \o " rows")

C12_Witness ==
    /\ aPc = "built"
    /\ Len(aRows) = 121
    /\ Len(aPrompt.rows_for_llm) = 120
    /\ aPrompt.truncation_note # ""

\* C13: an oracle call that fails is not retried and ends the request in a
\* failure with no envelope; when the repair call fails after a failed first
\* execution, no second execution takes place.
C13_OracleFailureEndsRequest ==
    \A r \in Reqs :
        /\ pc[r] = "generate" => oracleCalls[r].gen = 0
        /\ pc[r] = "repair" => oracleCalls[r].repair = 0
        /\ pc[r] = "summarize" => oracleCalls[r].answer = 0
        /\ outcome[r] = Oracle500 =>
             /\ pc[r] = "done"
             /\ outcome[r].kind = "error"
             /\ oracleCalls[r].gen <= 1 /\ oracleCalls[r].repair <= 1
             /\ oracleCalls[r].answer <= 1
             /\ (oracleCalls[r].repair = 0 /\ oracleCalls[r].answer = 0)
                    => executed[r] = << >>
             /\ (oracleCalls[r].repair = 1 /\ oracleCalls[r].answer = 0)
                    => (Len(executed[r]) = 1 /\ err1[r] # "")

C13_Witness ==
    \E r \in Reqs :
        /\ outcome[r] = Oracle500
        /\ oracleCalls[r] = [gen |-> 1, repair |-> 1, answer |-> 0]
        /\ Len(executed[r]) = 1
        /\ pc[r] = "done"

C16_CapNeverReachedInAsk ==
    \A r \in Reqs :
        sumArgs[r].called =>
            /\ Len(sumArgs[r].rows) <= 25
            /\ (Len(rows[r]) <= 25 => sumArgs[r].rows = rows[r])
            /\ (Len(rows[r]) > 25 => Len(sumArgs[r].rows) = 5)
            /\ prompt[r].rows_for_llm = sumArgs[r].rows
            /\ prompt[r].truncation_note = ""

C16_Witness ==
    \E r \in Reqs :
        /\ sumArgs[r].called
        /\ Len(rows[r]) > 120
        /\ Len(sumArgs[r].rows) = 5
        /\ prompt[r].truncation_note = ""

(* ------------- the oracle and the store as fixed functions ------------- *)

\* The generation and repair calls run at temperature 0 and the store is a
\* database engine: here both are pinned to functions, of the prompt and of
\* the statement and the tables present.  Oracle calls do not fail.

DetQuestions == {"who won", "top 30"}
DetSqlReplies ==
    {"select 1", "select updated_at from ac_totals", "drop table party_performance"}
DetErrMsgs == {"Binder Error: column not found"}
DetRowCounts == {1}

\* the questions that reach the oracle
DetKeys == {Strip(q) : q \in DetQuestions} \ {""}

\* the statements the store function answers: all but the DROPs
DetStmts ==
    {t \in {CleanGenerated(x) : x \in DetSqlReplies}
            \cup {CleanRepaired(x) : x \in DetSqlReplies} : ~IsDrop(t)}

DetResults ==
    {[ok |-> TRUE, rows |-> RowsOf(n), msg |-> ""] : n \in DetRowCounts}
    \cup {[ok |-> FALSE, rows |-> << >>, msg |-> m] : m \in DetErrMsgs}

\* line 232: the repair prompt is made of the question, the failing query and
\* the error message
RepairKeys ==
    {<<q, t, e>> : q \in DetKeys, t \in {u \in DetStmts : sql_safe(u)}, e \in DetErrMsgs}

Worlds ==
    {[pinned |-> TRUE, gen |-> g, rep |-> p, exec |-> x] :
        g \in [DetKeys -> DetSqlReplies],
        p \in [RepairKeys -> DetSqlReplies],
        x \in [DetStmts -> DetResults]}

\* llm.py lines 124-146: what the generation prompt varies with
GenPromptKey_shared(r) ==
    IF \E o \in Reqs \ {r} : question[o] \in DetKeys
    THEN question[CHOOSE o \in Reqs \ {r} : question[o] \in DetKeys]
    ELSE question[r]

GenPromptKey(r) == question[r]

\* main.py line 232: what the repair prompt varies with
RepairPromptKey(r) == <<question[r], sql[r], err1[r]>>

\* a statement that reads a table which is no longer there
MissingTable(st, stmt) == \E t \in DbTables \ st : Contains(Lower(stmt), t)

\* the one outcome of conn.cursor().execute(stmt).df() against store st
ExecAt(st, stmt) ==
    IF IsDrop(stmt) THEN CHOOSE res \in Execute(st, stmt) : TRUE
    ELSE IF MissingTable(st, stmt)
    THEN [store |-> st, ok |-> FALSE, rows |-> << >>,
          msg |-> CHOOSE m \in DetErrMsgs : TRUE]
    ELSE [store |-> st, ok |-> world.exec[stmt].ok,
          rows |-> world.exec[stmt].rows, msg |-> world.exec[stmt].msg]

InitPinned ==
    /\ InitRequests
    /\ vPc = "off" /\ vSql = "" /\ vVerdict = FALSE
    /\ AnswerOff
    /\ world \in Worlds
    /\ storeAtStart = [r \in Reqs |-> DbTables]

PinnedReceive(r) ==
    /\ ReceiveCore(r)
    /\ rawQuestion'[r] \in DetQuestions
    /\ storeAtStart' = [storeAtStart EXCEPT ![r] = store]
    /\ UNCHANGED <<vPc, vSql, vVerdict, aPc, aRows, aPrompt, world>>

PinnedGenerate(r) ==
    /\ Generate(r)
    /\ generated'[r] = CleanGenerated(world.gen[GenPromptKey(r)])

PinnedExecute1(r) ==
    /\ Execute1(r)
    /\ LET want == ExecAt(store, sql[r]) IN
       /\ store' = want.store
       /\ IF want.ok
          THEN pc'[r] = "summarize" /\ rows'[r] = want.rows
          ELSE pc'[r] = "repair" /\ err1'[r] = want.msg

PinnedRepair(r) ==
    /\ Repair(r)
    /\ repaired'[r] = CleanRepaired(world.rep[RepairPromptKey(r)])

PinnedExecute2(r) ==
    /\ Execute2(r)
    /\ LET want == ExecAt(store, sql[r]) IN
       /\ store' = want.store
       /\ IF want.ok
          THEN pc'[r] = "summarize" /\ rows'[r] = want.rows
          ELSE pc'[r] = "done" /\ err2'[r] = want.msg

\* requests in all slots, their steps interleaved in any order
NextPinned ==
    \E r \in Reqs :
        \/ PinnedReceive(r)
        \/ PinnedGenerate(r)
        \/ PinnedExecute1(r)
        \/ PinnedRepair(r)
        \/ PinnedExecute2(r)
        \/ Summarize(r)

SpecPinned == InitPinned /\ [][NextPinned]_vars

\* no request is in flight in another slot
OthersAtRest(r) == \A o \in Reqs \ {r} : pc[o] \in {"idle", "done"}

\* requests one after another, in any slot, earlier outcomes kept in the others
NextPinnedSerial ==
    \E r \in Reqs :
        \/ OthersAtRest(r) /\ PinnedReceive(r)
        \/ PinnedGenerate(r)
        \/ PinnedExecute1(r)
        \/ PinnedRepair(r)
        \/ PinnedExecute2(r)
        \/ Summarize(r)

SpecPinnedSerial == InitPinned /\ [][NextPinnedSerial]_vars

\* what of an outcome the caller can compare: sql and rows, or the error
Core(o) ==
    IF o.kind = "ok" THEN <<"ok", o.sql, o.rows>> ELSE <<"error", o.status, o.detail>>

\* the outcome of ask(q) run alone against the store as init_db left it
AloneOutcome(q) ==
    LET qq == Strip(q) IN
    IF qq = "" THEN <<"error", 400, "Empty question">>
    ELSE LET g == CleanGenerated(world.gen[qq]) IN
         IF ~sql_safe(g) THEN <<"error", 400, "Unsafe SQL">>
         ELSE LET r1 == ExecAt(DbTables, g) IN
              IF r1.ok THEN <<"ok", g, r1.rows>>
              ELSE LET f == CleanRepaired(world.rep[<<qq, g, r1.msg>>])
                       r2 == ExecAt(DbTables, f)
                   IN IF r2.ok THEN <<"ok", f, r2.rows>>
                      ELSE <<"error", 400, "Error executing SQL: " \o r2.msg>>

\* C11: two requests with the same question, run against an unchanged store
\* with a deterministic oracle, end with the same sql and rows, or the same
\* error, whatever other requests ran before or between them.
C11_SameQuestionSameResult ==
    \A r1, r2 \in Reqs :
        (/\ pc[r1] = "done" /\ pc[r2] = "done"
         /\ question[r1] = question[r2]
         /\ storeAtStart[r1] = store /\ storeAtStart[r2] = store)
        => Core(outcome[r1]) = Core(outcome[r2])

C11_Witness ==
    \E r1, r2 \in Reqs :
        /\ r1 # r2
        /\ pc[r1] = "done" /\ pc[r2] = "done"
        /\ question[r1] = question[r2]
        /\ storeAtStart[r1] = store /\ storeAtStart[r2] = store
        /\ outcome[r1].kind = "ok" /\ outcome[r2].kind = "ok"
        /\ oracleCalls[r1].repair = 1 /\ oracleCalls[r2].repair = 1
        /\ outcome[r1].answer # outcome[r2].answer

\* C15: with requests running concurrently in any interleaving, the outcome
\* of each request (sql and rows, or error) is the outcome it would have had
\* running alone against the startup store.
C15_OutcomeAsIfAlone ==
    \A r \in Reqs :
        pc[r] = "done" => Core(outcome[r]) = AloneOutcome(rawQuestion[r])

====
